---- MODULE Spec2Model ----
(***************************************************************************)
(* Cross-Origin-Opener-Policy interceptor of go-safeweb                    *)
(* (safehttp/plugins/coop/coop.go): policy serialization, construction of  *)
(* the Interceptor and of its per-handler Overrider, and the Before,       *)
(* Commit, OnError and Match callbacks the safehttp pipeline invokes.      *)
(*                                                                         *)
(* A Go string is a sequence of one-character strings, so concatenation,   *)
(* prefixes and embedded quotes are what they are in the program.          *)
(***************************************************************************)
EXTENDS Naturals, Sequences, FiniteSets, TLC

VARIABLES
    call,    \* construction-time call under study: its name and its arguments
    result,  \* what that call returned
    it,      \* the pipeline-wide Interceptor (built once, shared by all requests)
    ov,      \* the Overrider attached to the handler
    req,     \* per request: the Before activation, the response, the results
    match    \* the last Overrider.Match call and what it returned

vars == <<call, result, it, ov, req, match>>

-----------------------------------------------------------------------------
(* Bounds *)

\* longest reporting-group name drawn for the construction-time calls
MaxGroupLen == 1
\* longest policy list handed to NewInterceptor / Override at construction time
MaxPolicies == 2
\* longest policy list behind the pipeline's Interceptor and the handler's Overrider
MaxCfgPolicies == 1

\* characters reporting-group names are made of; the double quote is the one
\* character that would need escaping inside the quoted directive segment
GroupChars == {"g", "\""}

\* requests in flight at the same time
Requests == {"r1", "r2"}

-----------------------------------------------------------------------------
(* Mode constants, coop.go:113-120 *)

SameOrigin == <<"s", "a", "m", "e", "-", "o", "r", "i", "g", "i", "n">>
SameOriginAllowPopups == <<"s", "a", "m", "e", "-", "o", "r", "i", "g", "i", "n", "-", "a", "l", "l", "o", "w", "-", "p", "o", "p", "u", "p", "s">>
UnsafeNone == <<"u", "n", "s", "a", "f", "e", "-", "n", "o", "n", "e">>

Modes == {SameOrigin, SameOriginAllowPopups, UnsafeNone}

\* the literal `; report-to "` of Policy.String
ReportToOpen == <<";", " ", "r", "e", "p", "o", "r", "t", "-", "t", "o", " ", "\"">>
\* the literal `"` closing the directive
ReportToClose == <<"\"">>

\* header names claimed by Before
HeaderEnforce == "Cross-Origin-Opener-Policy"
HeaderReportOnly == "Cross-Origin-Opener-Policy-Report-Only"
HeaderNames == {HeaderEnforce, HeaderReportOnly}

-----------------------------------------------------------------------------
(* Policy and its serialization *)

StringsUpTo(chars, n) == UNION {[1..k -> chars] : k \in 0..n}

Groups == StringsUpTo(GroupChars, MaxGroupLen)

\* type Policy struct { Mode; ReportingGroup; ReportOnly }
Policy == [Mode : Modes, ReportingGroup : Groups, ReportOnly : BOOLEAN]

PolicyLists == UNION {[1..n -> Policy] : n \in 0..MaxPolicies}

\* a serializer that backslash-escapes double quotes of the group name
RECURSIVE EscapeQuotes(_)
EscapeQuotes(s) ==
    IF s = <<>> THEN <<>>
    ELSE (IF Head(s) = "\"" THEN <<"\\", "\"">> ELSE <<Head(s)>>) \o EscapeQuotes(Tail(s))

StringEscaped(p) ==
    IF p.ReportingGroup = <<>> THEN p.Mode
    ELSE p.Mode \o ReportToOpen \o EscapeQuotes(p.ReportingGroup) \o ReportToClose

\* a serializer that writes the group name without the surrounding quotes
StringUnquoted(p) ==
    IF p.ReportingGroup = <<>> THEN p.Mode
    ELSE p.Mode \o <<";", " ", "r", "e", "p", "o", "r", "t", "-", "t", "o", " ">>
                \o p.ReportingGroup

\* func (p Policy) String() string
String(p) ==
    IF p.ReportingGroup = <<>> THEN p.Mode
    ELSE p.Mode \o ReportToOpen \o p.ReportingGroup \o ReportToClose

-----------------------------------------------------------------------------
(* Interceptor, Overrider and their constructors *)

\* type Interceptor struct { rep []string; enf []string }
MkInterceptor(rep, enf) == [rep |-> rep, enf |-> enf]

EmptyInterceptor == MkInterceptor(<<>>, <<>>)

\* the for-range loop of NewInterceptor, from index i on, with the slices so far
RECURSIVE NewInterceptorLoop(_, _, _, _)
NewInterceptorLoop(policies, i, rep, enf) ==
    IF i > Len(policies) THEN MkInterceptor(rep, enf)
    ELSE IF policies[i].ReportOnly
         THEN NewInterceptorLoop(policies, i + 1, Append(rep, String(policies[i])), enf)
         ELSE NewInterceptorLoop(policies, i + 1, rep, Append(enf, String(policies[i])))

\* a constructor that skips a serialization already present in the slice
RECURSIVE NewInterceptorDedupLoop(_, _, _, _)
NewInterceptorDedupLoop(policies, i, rep, enf) ==
    IF i > Len(policies) THEN MkInterceptor(rep, enf)
    ELSE LET s == String(policies[i])
             has(q) == \E k \in DOMAIN q : q[k] = s
         IN IF policies[i].ReportOnly
            THEN NewInterceptorDedupLoop(policies, i + 1,
                                         IF has(rep) THEN rep ELSE Append(rep, s), enf)
            ELSE NewInterceptorDedupLoop(policies, i + 1, rep,
                                         IF has(enf) THEN enf ELSE Append(enf, s))

NewInterceptorDedup(policies) == NewInterceptorDedupLoop(policies, 1, <<>>, <<>>)

\* func NewInterceptor(policies ...Policy) Interceptor
NewInterceptor(policies) == NewInterceptorLoop(policies, 1, <<>>, <<>>)

\* a Default that forgets the report group
DefaultNoGroup(reportGroup) ==
    NewInterceptor(<<[Mode |-> SameOrigin, ReportingGroup |-> <<>>, ReportOnly |-> FALSE]>>)

\* func Default(reportGroup string) Interceptor; ReportOnly is the zero value
Default(reportGroup) ==
    NewInterceptor(<<[Mode |-> SameOrigin, ReportingGroup |-> reportGroup,
                      ReportOnly |-> FALSE]>>)

\* the conversions Overrider(x) and Interceptor(x): same fields, other named type
Overrider(i) == [rep |-> i.rep, enf |-> i.enf]
Interceptor(o) == [rep |-> o.rep, enf |-> o.enf]

\* func Override(policies ...Policy) Overrider
Override(policies) == Overrider(NewInterceptor(policies))

-----------------------------------------------------------------------------
(* Interface values: a dynamic type and the value it wraps *)

TypeNil == "nil"
TypeOverrider == "coop.Overrider"
TypeInterceptor == "coop.Interceptor"
\* a safehttp.InterceptorConfig / safehttp.Interceptor of some other plugin
TypeOtherConfig == "other.Config"
TypeOtherInterceptor == "other.Interceptor"

Iface(type, val) == [type |-> type, val |-> val]

\* the nil safehttp.InterceptorConfig
NilCfg == Iface(TypeNil, EmptyInterceptor)

CfgKinds == {TypeNil, TypeOverrider, TypeOtherConfig}

\* the configuration object the dispatcher hands to Before for a handler
MakeCfg(kind, o) == Iface(kind, IF kind = TypeOverrider THEN o ELSE EmptyInterceptor)

\* a Match that compares the candidate's sequences with the Overrider's
MatchByValue(p, i) == i.val = Interceptor(p)

\* func (p Overrider) Match(i safehttp.Interceptor) bool: _, ok := i.(Interceptor)
Match(p, i) == i.type = TypeInterceptor

-----------------------------------------------------------------------------
(* Results and the callbacks that only return one *)

NoResult == "none"
NotWritten == "NotWritten"
Written == "Written"

\* a Commit that reports a written response once it has headers to send
CommitWritten(i, cfg) == IF i.enf = <<>> /\ i.rep = <<>> THEN NotWritten ELSE Written

\* func (it Interceptor) Commit(w, r, resp, _) safehttp.Result
Commit(i, cfg) == NotWritten

\* func (it Interceptor) OnError(w, r, resp, _) safehttp.Result
OnError(i, cfg) == NotWritten

\* the value of `return safehttp.NotWritten()` ending Before
BeforeResult == NotWritten

-----------------------------------------------------------------------------
(* The pieces of Before *)

\* a delegation that keeps running with the pipeline's own sequences
DelegateReceiverOwn(i, cfg) == i

\* receiver of the delegated call: Interceptor(cfg.(Overrider))
DelegateReceiver(i, cfg) == Interceptor(cfg.val)

\* a delegation that hands the override on to the delegated call
DelegatedCfgKept(cfg) == cfg

\* configuration argument of the delegated call: nil
DelegatedCfg(cfg) == NilCfg

\* a pointer receiver overwritten with the override
SharedOverwritten(shared, callee) == callee

\* Before has a value receiver: the delegated call gets its own copy, and the
\* Interceptor the pipeline holds is what it was
SharedAfterDelegation(shared, callee) == shared

\* w.Header().Claim(name)(values): the name is claimed, the header is set
ClaimAndSet(q, name, values) ==
    [q EXCEPT !.claims = Append(@, name), !.hdr = [@ EXCEPT ![name] = values]]

-----------------------------------------------------------------------------
(* Pipeline configuration and per-request state *)

\* policies the pipeline and the handlers are configured with
CfgPolicy ==
    { [Mode |-> SameOrigin, ReportingGroup |-> <<>>, ReportOnly |-> FALSE],
      [Mode |-> UnsafeNone, ReportingGroup |-> <<>>, ReportOnly |-> FALSE],
      [Mode |-> SameOrigin, ReportingGroup |-> <<"g">>, ReportOnly |-> TRUE],
      [Mode |-> SameOriginAllowPopups, ReportingGroup |-> <<"g">>, ReportOnly |-> TRUE] }

CfgPolicyLists == UNION {[1..n -> CfgPolicy] : n \in 0..MaxCfgPolicies}

NoCall == [op |-> "none", policies |-> <<>>, reportGroup |-> <<>>]
NoOutput == [op |-> "none", it |-> EmptyInterceptor, str |-> <<>>]
NoMatch == [called |-> FALSE, cand |-> Iface(TypeNil, EmptyInterceptor), res |-> FALSE]

IdleReq ==
    [ pc      |-> "idle",            \* where the Before activation stands
      topCfg  |-> NilCfg,            \* cfg the pipeline passed to Before
      cfg     |-> NilCfg,            \* cfg of the running activation
      recv    |-> EmptyInterceptor,  \* receiver `it` of the running activation
      depth   |-> 0,                 \* Before activations below the running one
      claims  |-> <<>>,              \* header names claimed on the response, in order
      hdr     |-> [h \in HeaderNames |-> <<>>],  \* values set on the response
      ret     |-> NoResult,          \* value the delegated call returned
      before  |-> NoResult,          \* what Before returned to the pipeline
      commit  |-> NoResult,          \* what Commit returned
      onError |-> NoResult ]         \* what OnError returned

Init ==
    /\ call = NoCall
    /\ result = NoOutput
    /\ it \in {NewInterceptor(ps) : ps \in CfgPolicyLists}
    /\ ov \in {Override(ps) : ps \in CfgPolicyLists}
    /\ req = [r \in Requests |-> IdleReq]
    /\ match = NoMatch

-----------------------------------------------------------------------------
(* Before, step by step *)

\* the pipeline calls it.Before(w, r, cfg) for request r
CallBefore(r, kind) ==
    /\ req[r].pc = "idle"
    /\ req' = [req EXCEPT ![r].pc = "L167",
                          ![r].topCfg = MakeCfg(kind, ov),
                          ![r].cfg = MakeCfg(kind, ov),
                          ![r].recv = it]
    /\ UNCHANGED <<call, result, it, ov, match>>

\* cfg != nil and cfg.(Overrider) succeeds: Interceptor(cfg.(Overrider)).Before(w, r, nil)
BeforeOverride(r) ==
    /\ req[r].pc = "L167"
    /\ req[r].cfg.type = TypeOverrider
    /\ req' = [req EXCEPT ![r].recv = DelegateReceiver(req[r].recv, req[r].cfg),
                          ![r].cfg = DelegatedCfg(req[r].cfg),
                          ![r].depth = @ + 1]
    /\ it' = SharedAfterDelegation(it, DelegateReceiver(req[r].recv, req[r].cfg))
    /\ UNCHANGED <<call, result, ov, match>>

\* cfg != nil and the unchecked assertion cfg.(Overrider) fails: run-time panic
BeforeAssertPanics(r) ==
    /\ req[r].pc = "L167"
    /\ req[r].cfg.type \notin {TypeNil, TypeOverrider}
    /\ req' = [req EXCEPT ![r].pc = "panicked"]
    /\ UNCHANGED <<call, result, it, ov, match>>

\* cfg == nil: fall through to the claims
BeforeNoOverride(r) ==
    /\ req[r].pc = "L167"
    /\ req[r].cfg.type = TypeNil
    /\ req' = [req EXCEPT ![r].pc = "L171"]
    /\ UNCHANGED <<call, result, it, ov, match>>

\* w.Header().Claim("Cross-Origin-Opener-Policy")(it.enf)
BeforeClaimEnf(r) ==
    /\ req[r].pc = "L171"
    /\ req' = [req EXCEPT ![r] = [ClaimAndSet(@, HeaderEnforce, @.recv.enf)
                                    EXCEPT !.pc = "L172"]]
    /\ UNCHANGED <<call, result, it, ov, match>>

\* w.Header().Claim("Cross-Origin-Opener-Policy-Report-Only")(it.rep)
BeforeClaimRep(r) ==
    /\ req[r].pc = "L172"
    /\ req' = [req EXCEPT ![r] = [ClaimAndSet(@, HeaderReportOnly, @.recv.rep)
                                    EXCEPT !.pc = "L173"]]
    /\ UNCHANGED <<call, result, it, ov, match>>

\* return safehttp.NotWritten(): to the pipeline, or to the delegating activation
BeforeReturn(r) ==
    /\ req[r].pc = "L173"
    /\ req' = [req EXCEPT ![r] =
                 IF @.depth = 0
                 THEN [@ EXCEPT !.pc = "returned", !.before = BeforeResult]
                 ELSE [@ EXCEPT !.pc = "L169", !.ret = BeforeResult, !.depth = @ - 1]]
    /\ UNCHANGED <<call, result, it, ov, match>>

\* the delegating activation returns what the delegated call returned
BeforeReturnDelegated(r) ==
    /\ req[r].pc = "L169"
    /\ req' = [req EXCEPT ![r].pc = "returned", ![r].before = req[r].ret]
    /\ UNCHANGED <<call, result, it, ov, match>>

\* the pipeline calls it.Commit once Before has let the request through
CommitCall(r) ==
    /\ req[r].pc = "returned"
    /\ req[r].commit = NoResult
    /\ req[r].onError = NoResult
    /\ req' = [req EXCEPT ![r].commit = Commit(it, req[r].topCfg)]
    /\ UNCHANGED <<call, result, it, ov, match>>

\* the pipeline calls it.OnError on the error path (before or after Commit)
OnErrorCall(r) ==
    /\ req[r].pc = "returned"
    /\ req[r].onError = NoResult
    /\ req' = [req EXCEPT ![r].onError = OnError(it, req[r].topCfg)]
    /\ UNCHANGED <<call, result, it, ov, match>>

\* candidates the dispatcher tries the handler's Overrider against
Candidates == {Iface(TypeInterceptor, it), Iface(TypeOtherInterceptor, it)}

\* the dispatcher asks ov.Match(candidate)
MatchCall(c) ==
    /\ match' = [called |-> TRUE, cand |-> c, res |-> Match(ov, c)]
    /\ UNCHANGED <<call, result, it, ov, req>>

Next ==
    \/ \E r \in Requests, k \in CfgKinds : CallBefore(r, k)
    \/ \E r \in Requests : BeforeOverride(r)
    \/ \E r \in Requests : BeforeAssertPanics(r)
    \/ \E r \in Requests : BeforeNoOverride(r)
    \/ \E r \in Requests : BeforeClaimEnf(r)
    \/ \E r \in Requests : BeforeClaimRep(r)
    \/ \E r \in Requests : BeforeReturn(r)
    \/ \E r \in Requests : BeforeReturnDelegated(r)
    \/ \E r \in Requests : CommitCall(r)
    \/ \E r \in Requests : OnErrorCall(r)
    \/ \E c \in Candidates : MatchCall(c)

Spec == Init /\ [][Next]_vars

-----------------------------------------------------------------------------
(* Construction-time calls, one per behaviour *)

BuildCalls ==
    {[op |-> o, policies |-> ps, reportGroup |-> <<>>] :
        o \in {"NewInterceptor", "Override"}, ps \in PolicyLists}
    \cup {[op |-> "Default", policies |-> <<>>, reportGroup |-> g] : g \in Groups}
    \cup {[op |-> "String", policies |-> <<p>>, reportGroup |-> <<>>] : p \in Policy}

InitBuild ==
    /\ call \in BuildCalls
    /\ result = NoOutput
    /\ it = EmptyInterceptor
    /\ ov = Overrider(EmptyInterceptor)
    /\ req = [r \in Requests |-> IdleReq]
    /\ match = NoMatch

\* s := p.String() for the receiver call.policies[1]
DoString ==
    /\ call.op = "String" /\ result.op = "none"
    /\ result' = [op |-> "String", it |-> EmptyInterceptor,
                  str |-> String(call.policies[1])]
    /\ UNCHANGED <<call, it, ov, req, match>>

\* NewInterceptor(call.policies...)
DoNewInterceptor ==
    /\ call.op = "NewInterceptor" /\ result.op = "none"
    /\ result' = [op |-> "NewInterceptor", it |-> NewInterceptor(call.policies),
                  str |-> <<>>]
    /\ UNCHANGED <<call, it, ov, req, match>>

\* Override(call.policies...)
DoOverride ==
    /\ call.op = "Override" /\ result.op = "none"
    /\ result' = [op |-> "Override", it |-> Override(call.policies), str |-> <<>>]
    /\ UNCHANGED <<call, it, ov, req, match>>

\* Default(call.reportGroup)
DoDefault ==
    /\ call.op = "Default" /\ result.op = "none"
    /\ result' = [op |-> "Default", it |-> Default(call.reportGroup), str |-> <<>>]
    /\ UNCHANGED <<call, it, ov, req, match>>

NextBuild == DoString \/ DoNewInterceptor \/ DoOverride \/ DoDefault

SpecBuild == InitBuild /\ [][NextBuild]_vars

-----------------------------------------------------------------------------
(* Helpers of the properties *)

IsEnforced(p) == ~p.ReportOnly
IsReportOnly(p) == p.ReportOnly

\* the serializations of a policy list, position by position
Serialized(ps) == [i \in 1..Len(ps) |-> String(ps[i])]

\* a construction call that has returned an Interceptor / Overrider
Built == result.op \in {"NewInterceptor", "Override"}

\* the request's Before was given the handler's Overrider / nothing / a foreign config
WithOverride(r) == req[r].topCfg.type = TypeOverrider
WithoutCfg(r) == req[r].topCfg.type = TypeNil
WithForeignCfg(r) == req[r].topCfg.type = TypeOtherConfig

BothHeaders == <<HeaderEnforce, HeaderReportOnly>>

-----------------------------------------------------------------------------
(* Properties of the request pipeline (Spec) *)

\* C1: when Before is given the handler's Overrider, whatever it has set on the
\* response is the Overrider's: the enforcing header is the Overrider's enforced
\* sequence, the report-only header its report-only sequence, and once Before
\* has returned both are set; the Interceptor's own sequences are never written.
C1_OverrideSequencesWritten ==
    \A r \in Requests :
        WithOverride(r) =>
            /\ Len(req[r].claims) >= 1 => req[r].hdr[HeaderEnforce] = ov.enf
            /\ Len(req[r].claims) >= 2 => req[r].hdr[HeaderReportOnly] = ov.rep
            /\ Len(req[r].claims) < 1 => req[r].hdr[HeaderEnforce] = <<>>
            /\ Len(req[r].claims) < 2 => req[r].hdr[HeaderReportOnly] = <<>>
            /\ req[r].pc = "returned" => req[r].claims = BothHeaders

\* the spec's scenario: Interceptor enforcing same-origin, Override enforcing
\* unsafe-none, observed enforcing header exactly [unsafe-none]
C1_Witness ==
    \E r \in Requests :
        /\ WithOverride(r) /\ req[r].pc = "returned"
        /\ it.enf = <<SameOrigin>> /\ ov.enf = <<UnsafeNone>>
        /\ req[r].hdr[HeaderEnforce] = <<UnsafeNone>>

\* C2: with an absent configuration object, or one that is no Overrider of this
\* domain, Before does not fail and sets both headers to the Interceptor's own
\* sequences.
C2_AbsentOrForeignCfgUsesOwn ==
    \A r \in Requests :
        (WithoutCfg(r) \/ WithForeignCfg(r)) =>
            /\ req[r].pc # "panicked"
            /\ req[r].pc = "returned" =>
                  /\ req[r].claims = BothHeaders
                  /\ req[r].hdr[HeaderEnforce] = it.enf
                  /\ req[r].hdr[HeaderReportOnly] = it.rep

\* C4: Before, Commit and OnError return "not written" whenever they return,
\* with the Overrider present or absent and for every configured policy list.
C4_AlwaysNotWritten ==
    \A r \in Requests :
        /\ req[r].pc = "returned" <=> req[r].before # NoResult
        /\ req[r].before \in {NoResult, NotWritten}
        /\ req[r].commit \in {NoResult, NotWritten}
        /\ req[r].onError \in {NoResult, NotWritten}

C4_Witness ==
    \E r \in Requests :
        /\ WithOverride(r)
        /\ ov.enf # <<>>
        /\ req[r].before = NotWritten
        /\ req[r].commit = NotWritten
        /\ req[r].onError = NotWritten

\* C5: Match answers true exactly for a candidate whose type is this package's
\* Interceptor, whatever sequences the candidate and the Overrider hold.
C5_MatchIsTypeTest ==
    match.called => (match.res <=> match.cand.type = TypeInterceptor)

C5_Witness ==
    /\ match.called /\ match.res
    /\ match.cand.val # Interceptor(ov)
    /\ ov = Overrider(EmptyInterceptor)

\* C9: no step of any request and no Match call changes the Interceptor or the
\* Overrider, and two requests that ran Before with the same configuration
\* object hold the same two header values, whatever ran in between.
C9_SharedConfigImmutable ==
    /\ [][it' = it /\ ov' = ov]_vars
    /\ [](\A r1, r2 \in Requests :
            (/\ req[r1].pc = "returned" /\ req[r2].pc = "returned"
             /\ req[r1].topCfg = req[r2].topCfg)
            => req[r1].hdr = req[r2].hdr)

C9_Witness ==
    /\ req["r1"].pc = "returned" /\ WithOverride("r1")
    /\ req["r2"].pc = "L172" /\ WithoutCfg("r2")
    /\ match.called
    /\ it.enf # ov.enf

\* position of an activation on its way through Before
Rank(q) ==
    CASE q.pc = "idle" -> 0
      [] q.pc = "L167" -> 1 + q.depth
      [] q.pc = "L171" -> 3
      [] q.pc = "L172" -> 4
      [] q.pc = "L173" -> 5
      [] q.pc = "L169" -> 6
      [] OTHER -> 7

InBefore(r) == req[r].pc \notin {"idle", "returned", "panicked"}

BeforeStep(r) ==
    \/ BeforeOverride(r) \/ BeforeNoOverride(r) \/ BeforeAssertPanics(r)
    \/ BeforeClaimEnf(r) \/ BeforeClaimRep(r)
    \/ BeforeReturn(r) \/ BeforeReturnDelegated(r)

\* C10: one invocation of Before claims the enforcing header, then the
\* report-only header, each once and nothing else; it delegates at most once,
\* and the delegated call gets no configuration object; it always can take its
\* next step and every step brings it closer to its return.
C10_ClaimsOnceAndReturns ==
    /\ [](\A r \in Requests :
            /\ req[r].depth <= 1
            /\ req[r].depth = 1 => (WithOverride(r) /\ req[r].cfg = NilCfg)
            /\ \E n \in 0..2 : req[r].claims = SubSeq(BothHeaders, 1, n)
            /\ req[r].pc \in {"L173", "L169", "returned"} => req[r].claims = BothHeaders
            /\ req[r].pc = "returned" => req[r].depth = 0
            /\ InBefore(r) => ENABLED BeforeStep(r))
    /\ [][\A r \in Requests :
            (InBefore(r) /\ req'[r] # req[r]) => Rank(req'[r]) > Rank(req[r])]_vars

C10_Witness ==
    \E r \in Requests :
        /\ WithOverride(r) /\ req[r].pc = "L169"
        /\ req[r].claims = BothHeaders
        /\ it.enf # <<>> /\ ov.enf # it.enf

-----------------------------------------------------------------------------
(* Properties of the construction-time calls (SpecBuild) *)

\* C3: NewInterceptor and Override split the policy list in two without loss:
\* enf is the serializations of the enforcing policies in input order, rep
\* those of the report-only policies in input order, duplicates included.
C3_ExactPartition ==
    Built =>
        /\ Len(result.it.enf) + Len(result.it.rep) = Len(call.policies)
        /\ result.it.enf = Serialized(SelectSeq(call.policies, IsEnforced))
        /\ result.it.rep = Serialized(SelectSeq(call.policies, IsReportOnly))

C3_Witness ==
    /\ result.op = "Override"
    /\ Len(call.policies) = 2
    /\ call.policies[1] = call.policies[2]
    /\ Len(result.it.rep) = 2

\* C6: String returns the mode token alone for an empty reporting group, and
\* otherwise the mode token, `; report-to "`, the group character for
\* character, and a closing quote; ReportOnly plays no part.
C6_SerializationShape ==
    result.op = "String" =>
        LET p == call.policies[1]
            s == result.str
            m == Len(p.Mode)
            g == Len(p.ReportingGroup)
        IN /\ p.ReportingGroup = <<>> => s = p.Mode
           /\ p.ReportingGroup # <<>> =>
                 /\ Len(s) = m + 13 + g + 1
                 /\ SubSeq(s, 1, m) = p.Mode
                 /\ SubSeq(s, m + 1, m + 13) = ReportToOpen
                 /\ \A k \in 1..g : s[m + 13 + k] = p.ReportingGroup[k]
                 /\ s[Len(s)] = "\""

C6_Witness ==
    /\ result.op = "String"
    /\ call.policies[1].ReportOnly
    /\ \E k \in DOMAIN call.policies[1].ReportingGroup :
          call.policies[1].ReportingGroup[k] = "\""

\* the serialization policy i of the list contributed to the built value
OutputOf(i) ==
    LET same == {j \in 1..i : call.policies[j].ReportOnly = call.policies[i].ReportOnly}
    IN IF call.policies[i].ReportOnly
       THEN result.it.rep[Cardinality(same)]
       ELSE result.it.enf[Cardinality(same)]

\* C7 as stated: policies that differ in mode, group or flag never contribute
\* the same output string.
C7_AllFieldsRecoverable ==
    Built =>
        \A i, j \in DOMAIN call.policies :
            call.policies[i] # call.policies[j] => OutputOf(i) # OutputOf(j)

\* inverse of the serialization: the mode is what precedes the first ";", the
\* group what stands between `; report-to "` and the last character
ParseDirective(s) ==
    LET semis == {k \in DOMAIN s : s[k] = ";"}
    IN IF semis = {} THEN [Mode |-> s, ReportingGroup |-> <<>>]
       ELSE LET k == CHOOSE x \in semis : \A y \in semis : x <= y
            IN [Mode |-> SubSeq(s, 1, k - 1),
                ReportingGroup |-> SubSeq(s, k + Len(ReportToOpen), Len(s) - 1)]

ParsedAs(strs, flag) ==
    [k \in 1..Len(strs) |->
        [Mode |-> ParseDirective(strs[k]).Mode,
         ReportingGroup |-> ParseDirective(strs[k]).ReportingGroup,
         ReportOnly |-> flag]]

\* C7 amended: mode and group are recoverable from each output string, the
\* flag from the sequence that holds it: parsing enf as enforcing policies and
\* rep as report-only ones gives back the input policies, so policies that
\* differ in mode or group never contribute the same string.
C7_RoundTripModeGroup ==
    Built =>
        /\ ParsedAs(result.it.enf, FALSE) = SelectSeq(call.policies, IsEnforced)
        /\ ParsedAs(result.it.rep, TRUE) = SelectSeq(call.policies, IsReportOnly)
        /\ \A i, j \in DOMAIN call.policies :
              (\/ call.policies[i].Mode # call.policies[j].Mode
               \/ call.policies[i].ReportingGroup # call.policies[j].ReportingGroup)
              => OutputOf(i) # OutputOf(j)

C7_Witness ==
    /\ result.op = "NewInterceptor"
    /\ Len(result.it.enf) = 1 /\ Len(result.it.rep) = 1
    /\ call.policies[1].ReportingGroup = <<"\"">>
    /\ call.policies[2].Mode = call.policies[1].Mode
    /\ call.policies[2].ReportingGroup = <<>>

\* C8: Default(g) holds one enforced directive, same-origin with the group g
\* when there is one, and no report-only directive.
C8_DefaultIsSameOrigin ==
    result.op = "Default" =>
        /\ Len(result.it.enf) = 1
        /\ result.it.enf[1] = IF call.reportGroup = <<>> THEN SameOrigin
                              ELSE SameOrigin \o ReportToOpen \o call.reportGroup
                                   \o ReportToClose
        /\ result.it.rep = <<>>

C8_Witness ==
    /\ result.op = "Default"
    /\ call.reportGroup # <<>>
    /\ Len(result.it.enf) = 1

====
